---- MODULE Spec2Model ----
(***************************************************************************)
(* Model of the chunk / context / quality feedback loop of the podcast     *)
(* summarizer: ChunkManager.create_chunks, ChunkOptimizer.optimize_chunks, *)
(* ContextManager, QualityController.validate_summary and                  *)
(* PodcastSummarizer.process_podcast.                                      *)
(*                                                                         *)
(* Scores (quality metrics, thresholds, temperature) are integers in       *)
(* hundredths: 0.8 is 80.  Embeddings are integer vectors with a power of  *)
(* two denominator, so that the elementwise mean of a merge is exact.      *)
(***************************************************************************)
EXTENDS Integers, Sequences, FiniteSets, TLC

(***************************************************************************)
(* Configuration defaults of the program.                                  *)
(***************************************************************************)
min_quality_score == 80
max_retries == 2
max_context_chunks == 3
similarity_threshold == 85
min_chunk_size == 400
max_chunk_size == 1000
default_temperature == 30
default_max_tokens == 1000
retry_temperature == 50

(***************************************************************************)
(* Bounds of the model.                                                    *)
(***************************************************************************)
MaxChunks == 2
MaxParagraphs == 3
MaxOptChunks == 3
MaxUpdates == 5
MaxSentences == 2
max_cache_size == 3
MaxAdds == 5
MaxOracleCalls == 4
MaxRuns == 1
MaxCarried == 1
MaxCallers == 2
MaxTermCalls == 2

\* Python's None, and no exception
None == [none |-> TRUE]
NoError == "NoError"

(***************************************************************************)
(* Embeddings.  An embedding is [v |-> integer vector, d |-> n], standing  *)
(* for the vector v / 2^d.                                                 *)
(***************************************************************************)
RECURSIVE Pow2(_)
Pow2(n) == IF n = 0 THEN 1 ELSE 2 * Pow2(n - 1)

RECURSIVE GCD(_, _)
GCD(a, b) == IF b = 0 THEN a ELSE GCD(b, a % b)

Dot(a, b) == a[1]*b[1] + a[2]*b[2] + a[3]*b[3] + a[4]*b[4] + a[5]*b[5]

Emb(v) == [v |-> v, d |-> 0]

\* oracle vectors: cos(EA,EB) = 0.9, cos(EA,EC) = 0.85, cos(EA,ED) = 0,
\* cos(EB,EC) = 0.965, cos(EB,ED) = 0, cos(EC,ED) = 0.05
EA == Emb(<<1, 0, 0, 0, 0>>)
EB == Emb(<<9, 3, 3, 1, 0>>)
EC == Emb(<<17, 10, 3, 1, 1>>)
ED == Emb(<<0, 0, 0, 0, 1>>)

\* calculate_similarity(e1, e2) > t/100, for a threshold t >= 0:
\* dot/(|e1||e2|) > t/100  <=>  dot > 0 /\ 100^2 dot^2 > t^2 |e1|^2 |e2|^2
\* (the denominators 2^d cancel in the quotient)
SimilarityAbove(e1, e2, t) ==
    LET dot == Dot(e1.v, e2.v)
        n1 == Dot(e1.v, e1.v)
        n2 == Dot(e2.v, e2.v)
        num == t \div GCD(t, 100)
        den == 100 \div GCD(t, 100)
    IN  dot > 0 /\ den * den * dot * dot > num * num * n1 * n2

\* the same vector with the smallest denominator
RECURSIVE Reduced(_)
Reduced(e) ==
    IF e.d > 0 /\ \A k \in DOMAIN e.v : e.v[k] % 2 = 0
    THEN Reduced([v |-> [k \in DOMAIN e.v |-> e.v[k] \div 2], d |-> e.d - 1])
    ELSE e

\* np.mean([e1, e2], axis=0)
MeanEmbedding(e1, e2) ==
    Reduced([v |-> [k \in DOMAIN e1.v |->
                       e1.v[k] * Pow2(e2.d) + e2.v[k] * Pow2(e1.d)],
             d |-> e1.d + e2.d + 1])

\* calculate_similarity(c, e1) > calculate_similarity(c, e2)
\* (all oracle vectors have non-negative coordinates, so both are >= 0)
MoreSimilar(c, e1, e2) ==
    LET d1 == Dot(c.v, e1.v)
        d2 == Dot(c.v, e2.v)
    IN  d1 * d1 * Dot(e2.v, e2.v) > d2 * d2 * Dot(e1.v, e1.v)

(***************************************************************************)
(* Quality gate (QualityController).                                       *)
(***************************************************************************)
MetricNames == {"content_preservation", "technical_accuracy",
                "readability", "context_coherence"}

QualityMetrics(cp, ta, rd, cc) ==
    [content_preservation |-> cp, technical_accuracy |-> ta,
     readability |-> rd, context_coherence |-> cc]

\* the metric vectors the analyzers can compute for a generated summary
MetricCases ==
    { QualityMetrics(90, 90, 90, 90),
      QualityMetrics(80, 80, 80, 80),
      QualityMetrics(90, 82, 90, 90),
      QualityMetrics(79, 90, 90, 90),
      QualityMetrics(90, 79, 90, 90),
      QualityMetrics(90, 90, 79, 90),
      QualityMetrics(90, 90, 90, 79) }

\* faulty variant: a metric equal to the threshold is rejected
meets_quality_standards_strict(metrics) ==
    \A metric \in DOMAIN metrics : metrics[metric] > min_quality_score

\* all(getattr(metrics, metric) >= self.min_quality_score for metric in ...)
meets_quality_standards(metrics) ==
    \A metric \in DOMAIN metrics : metrics[metric] >= min_quality_score

\* faulty variant: one retry too many
may_retry_inclusive(count) == count <= max_retries

\* the guard of the retry branch of validate_summary
may_retry(count) == count < max_retries

\* a summary text: the oracle's answer number gen for chunk number chunk;
\* q is what the four analyzers compute for this text against its chunk
SummaryText(chunk, gen, q) == [chunk |-> chunk, gen |-> gen, q |-> q]

calculate_metrics(text, chunk) == text.q

\* generation parameters of a retry (temperature raised, length times 1.2)
retry_params(params) ==
    [temperature |-> retry_temperature,
     max_tokens |-> (params.max_tokens * 12) \div 10]

DefaultParams ==
    [temperature |-> default_temperature, max_tokens |-> default_max_tokens]

\* openai.ChatCompletion.acreate(..., temperature=0.3, max_tokens=1000):
\* generate_summary takes only the prompt, so whatever parameters its caller
\* asked for, the oracle call carries the two literals
generate_summary(requested) ==
    [temperature |-> default_temperature, max_tokens |-> default_max_tokens]

\* faulty variant: the accepting return counts one more attempt
accept_result_counted(metrics, count) ==
    [valid |-> TRUE, metrics |-> metrics, retry_count |-> count + 1]

\* return {'valid': True, 'metrics': metrics, 'retry_count': retry_count}
accept_result(metrics, count) ==
    [valid |-> TRUE, metrics |-> metrics, retry_count |-> count]

(***************************************************************************)
(* Context window (ContextManager).                                        *)
(***************************************************************************)
ContextEntry(chunk, summary) ==
    [chunk_text |-> chunk.text, summary |-> summary,
     embedding |-> chunk.embedding, speakers |-> chunk.speakers]

\* faulty variant: pop() removes the newest entry instead of the oldest
update_context_pop_newest(window, chunk, summary) ==
    LET appended == Append(window, ContextEntry(chunk, summary))
    IN  IF Len(appended) > max_context_chunks
        THEN SubSeq(appended, 1, Len(appended) - 1)
        ELSE appended

\* faulty variant: the entry is not in the window when the call returns
update_context_deferred(window, chunk, summary) == window

\* append, then pop(0) when the window is longer than max_context_chunks
update_context(window, chunk, summary) ==
    LET appended == Append(window, ContextEntry(chunk, summary))
    IN  IF Len(appended) > max_context_chunks THEN Tail(appended)
        ELSE appended

\* list.sort(reverse=True, key=similarity): a stable sort, descending
RECURSIVE InsertBySimilarity(_, _, _)
InsertBySimilarity(sorted, entry, current) ==
    IF sorted = <<>> THEN <<entry>>
    ELSE IF MoreSimilar(current, entry.embedding, Head(sorted).embedding)
         THEN <<entry>> \o sorted
         ELSE <<Head(sorted)>> \o InsertBySimilarity(Tail(sorted), entry, current)

RECURSIVE SortBySimilarity(_, _)
SortBySimilarity(entries, current) ==
    IF entries = <<>> THEN <<>>
    ELSE InsertBySimilarity(
             SortBySimilarity(SubSeq(entries, 1, Len(entries) - 1), current),
             entries[Len(entries)], current)

\* faulty variant: an entry at the threshold is kept too (the test is
\* similarity > threshold - 0.01)
RECURSIVE FilterRelevant_inclusive(_, _)
FilterRelevant_inclusive(entries, current) ==
    IF entries = <<>> THEN <<>>
    ELSE IF ~ SimilarityAbove(current, Head(entries).embedding,
                              similarity_threshold)
            /\ ~ SimilarityAbove(current, Head(entries).embedding,
                                 similarity_threshold - 1)
         THEN FilterRelevant_inclusive(Tail(entries), current)
         ELSE <<Head(entries)>> \o FilterRelevant_inclusive(Tail(entries), current)

RECURSIVE FilterRelevant(_, _)
FilterRelevant(entries, current) ==
    IF entries = <<>> THEN <<>>
    ELSE IF SimilarityAbove(current, Head(entries).embedding, similarity_threshold)
         THEN <<Head(entries)>> \o FilterRelevant(Tail(entries), current)
         ELSE FilterRelevant(Tail(entries), current)

get_relevant_context(window, current_chunk) ==
    IF window = <<>> THEN None
    ELSE LET relevant_entries ==
                 FilterRelevant(
                     SortBySimilarity(window, current_chunk.embedding),
                     current_chunk.embedding)
         IN  IF relevant_entries = <<>> THEN None
             ELSE [summaries |-> [k \in 1..Len(relevant_entries)
                                     |-> relevant_entries[k].summary],
                   speakers |-> UNION { relevant_entries[k].speakers
                                        : k \in 1..Len(relevant_entries) }]

\* faulty variant: the entries handed out as context leave the window
window_after_query_consumed(window, current_chunk) ==
    SelectSeq(window,
              LAMBDA entry : ~ SimilarityAbove(current_chunk.embedding,
                                               entry.embedding,
                                               similarity_threshold))

\* self.context_window after get_relevant_context: the method builds and
\* sorts its own list of (similarity, entry) pairs and assigns nothing to
\* self.context_window
window_after_query(window, current_chunk) == window

(***************************************************************************)
(* The pipeline (PodcastSummarizer.process_podcast).                       *)
(***************************************************************************)
VARIABLES
    pc,              \* position of process_podcast
    chunks,          \* the enhanced chunk sequence
    idx,             \* ordinal of the chunk the loop is at (1-based)
    context,         \* result of get_relevant_context for chunks[idx]
    summary,         \* the dict returned by summarize_chunk for chunks[idx]
    candidate,       \* the summary text validate_summary is evaluating
    retry_count,     \* retry_count argument of validate_summary
    params,          \* generation parameters the retry state asks for
    oracle_calls,    \* summarization oracle calls made for chunks[idx]
    oracle_params,   \* temperature and max_tokens the last oracle call carried
    validation,      \* the dict returned by validate_summary
    summaries,       \* the run's list of accepted summary dicts
    context_window,  \* ContextManager.context_window
    result,          \* the artifact returned to the caller
    error,           \* the exception raised to the caller
    inserted,        \* every entry update_context has appended, in call order
    \* ChunkManager.create_chunks
    cm_pc,           \* position of create_chunks
    paragraphs,      \* text.split('\n\n')
    para_idx,        \* index of the paragraph the for loop is at
    cm_chunks,       \* chunks
    current_chunk,   \* current_chunk
    current_size,    \* current_size
    \* ChunkOptimizer.optimize_chunks
    opt_pc,          \* position of optimize_chunks
    opt_chunks,      \* the chunks argument
    opt_idx,         \* index of next_chunk in the for loop
    opt_current,     \* current_chunk
    optimized_chunks,\* optimized_chunks
    opt_compared,    \* the (current_chunk, next_chunk) pair last compared
    \* ContextManager.get_relevant_context called on its own
    query_chunk,     \* the current_chunk argument of the last query
    \* ErrorHandler.handle_error
    h_pc,            \* position of handle_error
    h_error,         \* the error argument
    h_context,       \* the context argument
    h_strategy,      \* the recovery strategies that were run
    h_attempt,       \* attempt of the retry_document_processing loop
    h_sleeps,        \* the delays asyncio.sleep was awaited with, in order
    h_operations,    \* invocations of context['operation']
    h_calls,         \* second argument of each summarize_chunk call, in order
    h_caught,        \* kinds of the exceptions an except clause swallowed
    h_issues,        \* the dict analyze_quality_issues returned
    h_result,        \* the value handle_error returned
    h_raised,        \* the exception handle_error raised
    \* QualityController.calculate_metrics
    m_pc,            \* position of calculate_metrics
    m_source_terms,  \* extract_technical_terms(original['text'])
    m_summary_terms, \* extract_technical_terms(summary)
    m_sentences,     \* len(s.split()) for each s in summary.split('.')
    m_metrics,       \* the QualityMetrics returned
    \* TermCache
    tc_cache,        \* self.cache: term -> created_at of its explanation
    tc_adds,         \* number of add_term calls made
    tc_before,       \* self.cache when the last add_term call began
    tc_term,         \* the term argument of the last add_term call
    \* SemanticProcessor.get_embedding
    embedding_cache, \* self.embedding_cache: text -> embedding
    e_oracle_calls,  \* calls of openai.Embedding.create made
    e_last,          \* text and outcome of the last get_embedding call
    e_first,         \* text -> the embedding its first successful call returned
    \* PodcastSummarizer used for several runs
    runs,            \* process_podcast calls begun after the first
    \* SemanticProcessor.get_embedding called by concurrent coroutines
    co_cache,        \* self.embedding_cache: text -> embedding
    co_pc,           \* caller -> position of its get_embedding call
    co_text,         \* caller -> the text argument of its call
    co_result,       \* caller -> the embedding its call returned
    co_calls,        \* text -> calls of openai.Embedding.create made for it
    \* TechnicalTermProcessor.get_term_explanations
    tp_pc,           \* position of get_term_explanations
    tp_cache,        \* self.term_cache: term -> explanation
    tp_terms,        \* the terms argument
    tp_todo,         \* the terms the for loop has not visited yet
    tp_explanations, \* explanations
    tp_called,       \* terms generate_term_explanation was called for
    tp_failed,       \* terms whose generate_term_explanation call raised
    tp_before,       \* self.term_cache when the call began
    tp_count         \* get_term_explanations calls begun

pipelineVars == <<pc, chunks, idx, context, summary, candidate, retry_count,
                  params, oracle_calls, oracle_params, validation, summaries,
                  context_window, result, error, inserted>>

chunkerVars == <<cm_pc, paragraphs, para_idx, cm_chunks, current_chunk,
                 current_size>>

optimizerVars == <<opt_pc, opt_chunks, opt_idx, opt_current, optimized_chunks,
                   opt_compared>>

queryVars == <<query_chunk>>

handlerVars == <<h_pc, h_error, h_context, h_strategy, h_attempt, h_sleeps,
                 h_operations, h_calls, h_caught, h_issues, h_result,
                 h_raised>>

metricVars == <<m_pc, m_source_terms, m_summary_terms, m_sentences, m_metrics>>

termCacheVars == <<tc_cache, tc_adds, tc_before, tc_term>>

embeddingVars == <<embedding_cache, e_oracle_calls, e_last, e_first>>

runVars == <<runs>>

coVars == <<co_cache, co_pc, co_text, co_result, co_calls>>

termVars == <<tp_pc, tp_cache, tp_terms, tp_todo, tp_explanations, tp_called,
              tp_failed, tp_before, tp_count>>

extraVars == <<runVars, coVars, termVars>>

auxVars == <<metricVars, termCacheVars, embeddingVars, extraVars>>

vars == <<pipelineVars, chunkerVars, optimizerVars, queryVars, handlerVars,
          auxVars>>

\* what create_chunks and get_embedding can give for one chunk
ChunkKinds ==
    { [embedding |-> EA, speakers |-> {"Alice"}],
      [embedding |-> EB, speakers |-> {"Alice", "Bob"}],
      [embedding |-> EC, speakers |-> {"Bob"}],
      [embedding |-> ED, speakers |-> {}] }

Chunk(text, kind) ==
    [text |-> text, embedding |-> kind.embedding, speakers |-> kind.speakers]

ChunkSeqs ==
    UNION { [1..n -> ChunkKinds] : n \in 1..MaxChunks }

PipelineInit ==
    /\ pc = "process_document"
    /\ chunks = <<>>
    /\ idx = 0
    /\ context = None
    /\ summary = None
    /\ candidate = None
    /\ retry_count = 0
    /\ params = DefaultParams
    /\ oracle_calls = 0
    /\ oracle_params = None
    /\ validation = None
    /\ summaries = <<>>
    /\ context_window = <<>>
    /\ result = None
    /\ error = NoError
    /\ inserted = <<>>

\* format_summaries: "Section i+1:\n<summary>" for each list element
format_summaries(summs) ==
    [k \in 1..Len(summs) |-> [section |-> k, text |-> summs[k].summary]]

\* self.term_processor.get_all_terms(): the terms collected for the chunks
\* summarized so far, a term standing for the chunk it was found in
get_all_terms(summs) == { summs[k].summary.chunk : k \in 1..Len(summs) }

create_final_output(summs) ==
    [summary |-> format_summaries(summs),
     metadata |-> [chunk_count |-> Len(summs)],
     technical_terms |-> get_all_terms(summs)]

\* faulty variant: the handler returns what was summarized so far
RaiseSwallowed(kind) ==
    /\ pc' = "returned"
    /\ error' = kind
    /\ result' = create_final_output(summaries)
    /\ UNCHANGED <<chunks, idx, context, summary, candidate, retry_count,
                   params, oracle_calls, oracle_params, validation, summaries,
                   context_window, inserted>>

\* except Exception as e: log; raise
Raise(kind) ==
    /\ pc' = "raised"
    /\ error' = kind
    /\ UNCHANGED <<chunks, idx, context, summary, candidate, retry_count,
                   params, oracle_calls, oracle_params, validation, summaries,
                   context_window, result, inserted>>

\* text = await self.document_processor.process_document(file_path)
ProcessDocument ==
    /\ pc = "process_document"
    /\ UNCHANGED <<chunkerVars, optimizerVars, queryVars, handlerVars, auxVars>>
    /\ \/ /\ pc' = "create_chunks"
          /\ UNCHANGED <<chunks, idx, context, summary, candidate, retry_count,
                         params, oracle_calls, oracle_params, validation, summaries,
                         context_window, result, error, inserted>>
       \/ Raise("DocumentError")

\* chunks = await enhance_chunks(await create_chunks(text))
CreateChunks ==
    /\ pc = "create_chunks"
    /\ UNCHANGED <<chunkerVars, optimizerVars, queryVars, handlerVars, auxVars>>
    /\ \/ \E kinds \in ChunkSeqs :
            /\ chunks' = [k \in 1..Len(kinds) |-> Chunk(k, kinds[k])]
            /\ idx' = 1
            /\ pc' = "get_relevant_context"
            /\ UNCHANGED <<context, summary, candidate, retry_count, params,
                           oracle_calls, oracle_params, validation, summaries,
                           context_window, result, error, inserted>>
       \/ Raise("EmbeddingError")

\* context = self.context_manager.get_relevant_context(chunk)
GetRelevantContext ==
    /\ pc = "get_relevant_context"
    /\ UNCHANGED <<chunkerVars, optimizerVars, queryVars, handlerVars, auxVars>>
    /\ context' = get_relevant_context(context_window, chunks[idx])
    /\ context_window' = window_after_query(context_window, chunks[idx])
    /\ pc' = "process_terms"
    /\ UNCHANGED <<chunks, idx, summary, candidate, retry_count, params,
                   oracle_calls, oracle_params, validation, summaries,
                   result, error, inserted>>

\* terms = await self.term_processor.process_terms(chunk['text'])
ProcessTerms ==
    /\ pc = "process_terms"
    /\ UNCHANGED <<chunkerVars, optimizerVars, queryVars, handlerVars, auxVars>>
    /\ \/ /\ pc' = "summarize_chunk"
          /\ UNCHANGED <<chunks, idx, context, summary, candidate, retry_count,
                         params, oracle_calls, oracle_params, validation, summaries,
                         context_window, result, error, inserted>>
       \/ Raise("TermError")

\* faulty variant: the summary is made without the context
SummaryDict_no_context(text, ctx) == [summary |-> text, context_used |-> FALSE]

\* the dict summarize_chunk returns
SummaryDict(text, ctx) == [summary |-> text, context_used |-> ctx # None]

\* faulty variant: the count of the previous chunk's validation is carried on
entry_retry_count_carried(previous) == previous

\* validate_summary(summary['summary'], chunk): no retry_count is passed, so
\* the parameter takes its default, whatever the previous chunk's call used
entry_retry_count(previous) == 0

\* summary = await self.summarization_pipeline.summarize_chunk(chunk, ...)
SummarizeChunk ==
    /\ pc = "summarize_chunk"
    /\ UNCHANGED <<chunkerVars, optimizerVars, queryVars, handlerVars, auxVars>>
    /\ \/ \E q \in MetricCases :
            /\ summary' = SummaryDict(SummaryText(idx, 0, q), context)
            /\ params' = DefaultParams
            /\ oracle_calls' = 1
            /\ oracle_params' = generate_summary(DefaultParams)
            /\ candidate' = SummaryText(idx, 0, q)
            /\ retry_count' = entry_retry_count(retry_count)
            /\ pc' = "validate_summary"
            /\ UNCHANGED <<chunks, idx, context, validation, summaries,
                           context_window, result, error, inserted>>
       \/ Raise("SummarizationError")

\* validate_summary(summary, original_chunk, retry_count)
ValidateSummary ==
    /\ pc = "validate_summary"
    /\ UNCHANGED <<chunkerVars, optimizerVars, queryVars, handlerVars, auxVars>>
    /\ LET metrics == calculate_metrics(candidate, chunks[idx])
       IN  IF meets_quality_standards(metrics)
           THEN /\ validation' = accept_result(metrics, retry_count)
                /\ pc' = "validated"
                /\ UNCHANGED <<chunks, idx, context, summary, candidate,
                               retry_count, params, oracle_calls, oracle_params, summaries,
                               context_window, result, error, inserted>>
           ELSE IF may_retry(retry_count)
           THEN /\ retry_count' = retry_count + 1
                /\ pc' = "retry_summary"
                /\ UNCHANGED <<chunks, idx, context, summary, candidate,
                               params, oracle_calls, oracle_params, validation, summaries,
                               context_window, result, error, inserted>>
           ELSE Raise("QualityCheckError")

\* retry_summary(original_chunk, metrics, retry_count + 1): mutate the
\* generation parameters, call the summarization oracle again and validate
\* the regenerated summary
RetrySummary ==
    /\ pc = "retry_summary"
    /\ UNCHANGED <<chunkerVars, optimizerVars, queryVars, handlerVars, auxVars>>
    /\ \/ \E q \in MetricCases :
            /\ params' = retry_params(params)
            /\ oracle_calls' = oracle_calls + 1
            /\ oracle_params' = generate_summary(retry_params(params))
            /\ candidate' = SummaryText(idx, retry_count, q)
            /\ pc' = "validate_summary"
            /\ UNCHANGED <<chunks, idx, context, summary, retry_count,
                           validation, summaries, context_window, result,
                           error, inserted>>
       \/ Raise("SummarizationError")

\* if validation['valid']: summaries.append(summary); update_context(...)
\* else: raise QualityError; then the for loop advances
AcceptOrAbort ==
    /\ pc = "validated"
    /\ UNCHANGED <<chunkerVars, optimizerVars, queryVars, handlerVars, auxVars>>
    /\ IF validation.valid
       THEN LET accepted == summary
            IN  /\ summaries' = Append(summaries, accepted)
                /\ context_window' =
                       update_context(context_window, chunks[idx],
                                      accepted.summary)
                /\ idx' = idx + 1
                /\ pc' = IF idx < Len(chunks) THEN "get_relevant_context"
                         ELSE "create_final_output"
                /\ inserted' =
                       Append(inserted,
                              ContextEntry(chunks[idx], accepted.summary))
                /\ UNCHANGED <<chunks, context, summary, candidate,
                               retry_count, params, oracle_calls, oracle_params, validation,
                               result, error>>
       ELSE Raise("QualityError")

\* result = self.create_final_output(...); return result
CreateFinalOutput ==
    /\ pc = "create_final_output"
    /\ UNCHANGED <<chunkerVars, optimizerVars, queryVars, handlerVars, auxVars>>
    /\ result' = create_final_output(summaries)
    /\ pc' = "returned"
    /\ UNCHANGED <<chunks, idx, context, summary, candidate, retry_count,
                   params, oracle_calls, oracle_params, validation, summaries,
                   context_window, error, inserted>>

\* process_podcast is called again on the same PodcastSummarizer after a run
\* returned or raised: its locals start afresh, the ContextManager made in
\* __init__ is the same object and nothing in process_podcast empties it
ProcessPodcastAgain ==
    /\ pc \in {"returned", "raised"}
    /\ runs < MaxRuns
    /\ Len(context_window) <= MaxCarried
    /\ runs' = runs + 1
    /\ pc' = "process_document"
    /\ chunks' = <<>>
    /\ idx' = 0
    /\ context' = None
    /\ summary' = None
    /\ candidate' = None
    /\ retry_count' = 0
    /\ params' = DefaultParams
    /\ oracle_calls' = 0
    /\ oracle_params' = None
    /\ validation' = None
    /\ summaries' = <<>>
    /\ result' = None
    /\ error' = NoError
    /\ UNCHANGED <<context_window, inserted>>
    /\ UNCHANGED <<chunkerVars, optimizerVars, queryVars, handlerVars,
                   metricVars, termCacheVars, embeddingVars, coVars,
                   termVars>>

(***************************************************************************)
(* ContextManager.update_context called on its own, any number of times.   *)
(***************************************************************************)
UpdateContext ==
    /\ Len(inserted) < MaxUpdates
    /\ \E kind \in ChunkKinds :
         LET chunk == Chunk(Len(inserted) + 1, kind)
             text == SummaryText(Len(inserted) + 1, 0,
                                 QualityMetrics(90, 90, 90, 90))
         IN  /\ context_window' = update_context(context_window, chunk, text)
             /\ inserted' = Append(inserted, ContextEntry(chunk, text))
    /\ UNCHANGED <<pc, chunks, idx, context, summary, candidate, retry_count,
                   params, oracle_calls, oracle_params, validation, summaries, result, error>>
    /\ UNCHANGED <<chunkerVars, optimizerVars, queryVars, handlerVars, auxVars>>

(***************************************************************************)
(* ChunkManager.create_chunks.  A paragraph is [id, words]: its position   *)
(* in the text and len(para.split()).  A chunk's text is the sequence of   *)
(* the paragraphs joined by blank lines.                                   *)
(***************************************************************************)
ParaSizes == {50, 200, 300, 600, 800, 1200}

ParagraphSeqs ==
    UNION { [1..n -> ParaSizes] : n \in 1..MaxParagraphs }

RECURSIVE WordCount(_)
WordCount(paras) ==
    IF paras = <<>> THEN 0 ELSE Head(paras).words + WordCount(Tail(paras))

\* faulty variant: only the last paragraph of the buffer goes into the chunk
create_chunk_dict_last(paras) ==
    [text |-> <<paras[Len(paras)]>>, size |-> paras[Len(paras)].words]

\* text = '\n\n'.join(paragraphs); size = len(text.split())
create_chunk_dict(paras) == [text |-> paras, size |-> WordCount(paras)]

\* faulty variant: the test looks at the buffer alone
exceeds_max_before(size, para_size) == size > max_chunk_size

\* if current_size + para_size > self.max_chunk_size
exceeds_max(size, para_size) == size + para_size > max_chunk_size

\* faulty variant: a buffer of exactly min_chunk_size words is kept open
big_enough_strict(size) == size > min_chunk_size

\* if current_size >= self.min_chunk_size
big_enough(size) == size >= min_chunk_size

ChunkerIdle ==
    /\ cm_pc = "idle"
    /\ paragraphs = <<>>
    /\ para_idx = 0
    /\ cm_chunks = <<>>
    /\ current_chunk = <<>>
    /\ current_size = 0

ChunkerInit ==
    /\ cm_pc = "loop"
    /\ \E sizes \in ParagraphSeqs :
         paragraphs = [k \in 1..Len(sizes) |-> [id |-> k, words |-> sizes[k]]]
    /\ para_idx = 1
    /\ cm_chunks = <<>>
    /\ current_chunk = <<>>
    /\ current_size = 0

\* one iteration of: for para in paragraphs
ChunkParagraph ==
    /\ cm_pc = "loop"
    /\ para_idx <= Len(paragraphs)
    /\ LET para == paragraphs[para_idx]
           para_size == para.words
           flush_first == exceeds_max(current_size, para_size)
                          /\ current_chunk # <<>>
           chunks1 == IF flush_first
                      THEN Append(cm_chunks, create_chunk_dict(current_chunk))
                      ELSE cm_chunks
           chunk1 == IF flush_first THEN <<>> ELSE current_chunk
           size1 == IF flush_first THEN 0 ELSE current_size
           chunk2 == Append(chunk1, para)
           size2 == size1 + para_size
       IN  IF big_enough(size2)
           THEN /\ cm_chunks' = Append(chunks1, create_chunk_dict(chunk2))
                /\ current_chunk' = <<>>
                /\ current_size' = 0
           ELSE /\ cm_chunks' = chunks1
                /\ current_chunk' = chunk2
                /\ current_size' = size2
    /\ para_idx' = para_idx + 1
    /\ UNCHANGED <<cm_pc, paragraphs>>
    /\ UNCHANGED <<pipelineVars, optimizerVars, queryVars, handlerVars, auxVars>>

\* after the loop: if current_chunk: chunks.append(...); return chunks
ChunkReturn ==
    /\ cm_pc = "loop"
    /\ para_idx > Len(paragraphs)
    /\ cm_chunks' = IF current_chunk # <<>>
                    THEN Append(cm_chunks, create_chunk_dict(current_chunk))
                    ELSE cm_chunks
    /\ cm_pc' = "returned"
    /\ UNCHANGED <<paragraphs, para_idx, current_chunk, current_size>>
    /\ UNCHANGED <<pipelineVars, optimizerVars, queryVars, handlerVars, auxVars>>

(***************************************************************************)
(* ChunkOptimizer.optimize_chunks.  A chunk's text is the sequence of the  *)
(* input chunks' texts it concatenates.                                    *)
(***************************************************************************)
OptSizes == {300, 400, 600}

OptChunk(id, size, kind) ==
    [text |-> <<id>>, size |-> size, speakers |-> kind.speakers,
     embedding |-> kind.embedding]

OptInputs ==
    UNION { [1..n -> OptSizes \X ChunkKinds] : n \in 1..MaxOptChunks }

\* faulty variant: the second chunk's text is put first
merge_chunks_swapped(chunk1, chunk2) ==
    [text |-> chunk2.text \o chunk1.text,
     size |-> chunk1.size + chunk2.size,
     speakers |-> chunk1.speakers \cup chunk2.speakers,
     embedding |-> MeanEmbedding(chunk1.embedding, chunk2.embedding)]

merge_chunks(chunk1, chunk2) ==
    [text |-> chunk1.text \o chunk2.text,
     size |-> chunk1.size + chunk2.size,
     speakers |-> chunk1.speakers \cup chunk2.speakers,
     embedding |-> MeanEmbedding(chunk1.embedding, chunk2.embedding)]

\* faulty variant: a combined size equal to max_chunk_size is refused
should_merge_below_max(current, next) ==
    /\ SimilarityAbove(current.embedding, next.embedding, similarity_threshold)
    /\ current.size + next.size < max_chunk_size

\* faulty variant: similarity >= similarity_threshold
should_merge_at_threshold(current, next) ==
    LET dot == Dot(current.embedding.v, next.embedding.v)
        n1 == Dot(current.embedding.v, current.embedding.v)
        n2 == Dot(next.embedding.v, next.embedding.v)
    IN  /\ dot > 0
        /\ 400 * dot * dot >= 289 * n1 * n2
        /\ current.size + next.size <= max_chunk_size

\* similarity > similarity_threshold and combined_size <= max_chunk_size
should_merge(current, next) ==
    /\ SimilarityAbove(current.embedding, next.embedding, similarity_threshold)
    /\ current.size + next.size <= max_chunk_size

\* the for loop of optimize_chunks from current_chunk on, rest being the
\* chunks not yet visited and done the chunks appended so far
RECURSIVE optimize_from(_, _, _)
optimize_from(current, rest, done) ==
    IF rest = <<>> THEN Append(done, current)
    ELSE IF should_merge(current, Head(rest))
         THEN optimize_from(merge_chunks(current, Head(rest)), Tail(rest), done)
         ELSE optimize_from(Head(rest), Tail(rest), Append(done, current))

\* optimize_chunks as a function of its argument (a non-empty list)
optimize_chunks(input) == optimize_from(Head(input), Tail(input), <<>>)

OptimizerIdle ==
    /\ opt_pc = "idle"
    /\ opt_chunks = <<>>
    /\ opt_idx = 0
    /\ opt_current = None
    /\ optimized_chunks = <<>>
    /\ opt_compared = None

\* optimized_chunks = []; current_chunk = chunks[0]
OptimizerInit ==
    /\ opt_pc = "loop"
    /\ \E input \in OptInputs :
         opt_chunks = [k \in 1..Len(input)
                          |-> OptChunk(k, input[k][1], input[k][2])]
    /\ opt_idx = 2
    /\ opt_current = opt_chunks[1]
    /\ optimized_chunks = <<>>
    /\ opt_compared = None

\* one iteration of: for next_chunk in chunks[1:]
OptimizeStep ==
    /\ opt_pc = "loop"
    /\ opt_idx <= Len(opt_chunks)
    /\ LET next_chunk == opt_chunks[opt_idx]
       IN  /\ opt_compared' = [current |-> opt_current, next |-> next_chunk]
           /\ IF should_merge(opt_current, next_chunk)
              THEN /\ opt_current' = merge_chunks(opt_current, next_chunk)
                   /\ optimized_chunks' = optimized_chunks
              ELSE /\ optimized_chunks' = Append(optimized_chunks, opt_current)
                   /\ opt_current' = next_chunk
    /\ opt_idx' = opt_idx + 1
    /\ UNCHANGED <<opt_pc, opt_chunks>>
    /\ UNCHANGED <<pipelineVars, chunkerVars, queryVars, handlerVars, auxVars>>

\* optimized_chunks.append(current_chunk); return optimized_chunks
OptimizeReturn ==
    /\ opt_pc = "loop"
    /\ opt_idx > Len(opt_chunks)
    /\ optimized_chunks' = Append(optimized_chunks, opt_current)
    /\ opt_pc' = "returned"
    /\ UNCHANGED <<opt_chunks, opt_idx, opt_current, opt_compared>>
    /\ UNCHANGED <<pipelineVars, chunkerVars, queryVars, handlerVars, auxVars>>

(***************************************************************************)
(* ContextManager.get_relevant_context called on its own, between updates. *)
(***************************************************************************)
QueryIdle == query_chunk = None

QueryContext ==
    /\ \E kind \in ChunkKinds :
         LET current == Chunk(Len(inserted) + 1, kind)
         IN  /\ query_chunk' = current
             /\ context' = get_relevant_context(context_window, current)
             /\ context_window' = window_after_query(context_window, current)
    /\ UNCHANGED <<pc, chunks, idx, summary, candidate, retry_count, params,
                   oracle_calls, oracle_params, validation, summaries,
                   result, error, inserted>>
    /\ UNCHANGED <<chunkerVars, optimizerVars, handlerVars, auxVars>>

(***************************************************************************)
(* ErrorHandler.  An exception is the name of its class; a context is a    *)
(* dict, modelled as a function whose domain is the keys it has.           *)
(***************************************************************************)
handler_max_retries == 3
handler_temperature == 50
handler_default_max_tokens == 1000

\* the base classes of every exception class the handler can meet
Bases ==
    [ DocumentProcessingError |-> "PodcastSummarizerError",
      SummarizationError      |-> "PodcastSummarizerError",
      QualityError            |-> "PodcastSummarizerError",
      PodcastSummarizerError  |-> "Exception",
      QualityCheckError       |-> "Exception",
      KeyError                |-> "Exception" ]

RECURSIVE IsInstance(_, _)
IsInstance(kind, cls) ==
    \/ kind = cls
    \/ /\ kind \in DOMAIN Bases
       /\ IsInstance(Bases[kind], cls)

\* the errors handle_error is called with
ErrorKinds ==
    { "DocumentProcessingError", "SummarizationError", "QualityError",
      "PodcastSummarizerError", "QualityCheckError" }

\* what the retried operation or the summarizer can raise
FailureKinds == { "SummarizationError", "QualityCheckError" }

NoStrategy == "None"

\* the recovery_strategies dict, in insertion order
recovery_strategies ==
    << [error_type |-> "DocumentProcessingError",
        strategy   |-> "retry_document_processing"],
       [error_type |-> "SummarizationError",
        strategy   |-> "retry_summarization"],
       [error_type |-> "QualityError",
        strategy   |-> "handle_quality_error"] >>

\* for error_type, strategy in ...items(): if isinstance(error, error_type)
RECURSIVE FirstStrategy(_, _)
FirstStrategy(table, err) ==
    IF table = <<>> THEN NoStrategy
    ELSE IF IsInstance(err, Head(table).error_type)
         THEN Head(table).strategy
         ELSE FirstStrategy(Tail(table), err)

\* faulty variant: the base class is registered too, ahead of the others
get_recovery_strategy_base(err) ==
    FirstStrategy(<< [error_type |-> "PodcastSummarizerError",
                      strategy   |-> "retry_document_processing"] >>
                  \o recovery_strategies, err)

get_recovery_strategy(err) == FirstStrategy(recovery_strategies, err)

\* execute_recovery(strategy, error, context): await strategy(error, context)
execute_recovery(strategy) == strategy

\* faulty variant: linear backoff
backoff_delay_linear(attempt) == 2 * attempt

\* 2 ** attempt
backoff_delay(attempt) == Pow2(attempt)

\* context.get(key, default)
Get(ctx, key, default) == IF key \in DOMAIN ctx THEN ctx[key] ELSE default

\* faulty variant: max_tokens is passed on as it came
modified_context_unscaled(ctx) ==
    ( "temperature" :> handler_temperature
      @@ "max_tokens" :> Get(ctx, "max_tokens", handler_default_max_tokens) )
    @@ ctx

\* {**context, 'temperature': 0.5, 'max_tokens': int(... * 1.2)}
modified_context(ctx) ==
    ( "temperature" :> handler_temperature
      @@ "max_tokens" :>
             (Get(ctx, "max_tokens", handler_default_max_tokens) * 12) \div 10 )
    @@ ctx

\* self.config['quality_thresholds']
quality_thresholds ==
    [ content_preservation |-> 80, technical_accuracy |-> 85,
      readability |-> 80, context_coherence |-> 80 ]

\* faulty variant: a metric equal to its threshold is reported too
analyze_quality_issues_inclusive(ctx) ==
    LET metrics == Get(ctx, "quality_metrics", <<>>)
        low == { metric \in DOMAIN metrics :
                     metrics[metric] <= quality_thresholds[metric] }
    IN  [ metric \in low |->
              [ value |-> metrics[metric],
                threshold |-> quality_thresholds[metric],
                difference |-> quality_thresholds[metric] - metrics[metric] ] ]

\* issues[metric] = {value, threshold, difference} where value < threshold
analyze_quality_issues(ctx) ==
    LET metrics == Get(ctx, "quality_metrics", <<>>)
        low == { metric \in DOMAIN metrics :
                     metrics[metric] < quality_thresholds[metric] }
    IN  [ metric \in low |->
              [ value |-> metrics[metric],
                threshold |-> quality_thresholds[metric],
                difference |-> quality_thresholds[metric] - metrics[metric] ] ]

\* adjust_quality_parameters(context, quality_issues): the parameters of
\* the context, adjusted for the issues found
adjust_quality_parameters(ctx, issues) == ("quality_issues" :> issues) @@ ctx

\* the contexts handle_error is called with
ContextKeys ==
    { "operation", "chunk", "summarizer", "max_tokens", "quality_metrics" }

TokenLimits == { 500, 1001 }

ContextValue(key, limit, metrics) ==
    CASE key = "max_tokens" -> limit
      [] key = "quality_metrics" -> metrics
      [] OTHER -> key

Contexts ==
    { [ key \in keys |-> ContextValue(key, limit, metrics) ] :
          keys \in SUBSET ContextKeys, limit \in TokenLimits,
          metrics \in MetricCases }

OperationResult == [returned_by |-> "operation"]
SummarizerResult == [returned_by |-> "summarize_chunk"]

HandlerIdle ==
    /\ h_pc = "idle"
    /\ h_error = NoError
    /\ h_context = <<>>
    /\ h_strategy = {}
    /\ h_attempt = 0
    /\ h_sleeps = <<>>
    /\ h_operations = 0
    /\ h_calls = <<>>
    /\ h_caught = {}
    /\ h_issues = <<>>
    /\ h_result = None
    /\ h_raised = NoError

HandlerInit ==
    /\ h_pc = "handle_error"
    /\ h_error \in ErrorKinds
    /\ h_context \in Contexts
    /\ h_strategy = {}
    /\ h_attempt = 0
    /\ h_sleeps = <<>>
    /\ h_operations = 0
    /\ h_calls = <<>>
    /\ h_caught = {}
    /\ h_issues = <<>>
    /\ h_result = None
    /\ h_raised = NoError

\* return value
HandlerReturn(value) ==
    /\ h_pc' = "returned"
    /\ h_result' = value
    /\ h_raised' = h_raised

\* strategy = self.get_recovery_strategy(error); if strategy: return await
\* self.execute_recovery(strategy, error, context); else: raise error
HandleError ==
    /\ h_pc = "handle_error"
    /\ LET strategy == get_recovery_strategy(h_error)
       IN  IF strategy # NoStrategy
           THEN /\ h_pc' = execute_recovery(strategy)
                /\ h_strategy' = h_strategy \cup {strategy}
                /\ h_raised' = h_raised
           ELSE /\ h_pc' = "raised"
                /\ h_raised' = h_error
                /\ h_strategy' = h_strategy
    /\ UNCHANGED <<h_error, h_context, h_attempt, h_sleeps, h_operations,
                   h_calls, h_caught, h_issues, h_result>>
    /\ UNCHANGED <<pipelineVars, chunkerVars, optimizerVars, queryVars, auxVars>>

\* one pass of: for attempt in range(max_retries): try: sleep(2 ** attempt);
\* return await operation(); except Exception: log -- or the return None
\* before and after the loop
RetryDocumentProcessing ==
    /\ h_pc = "retry_document_processing"
    /\ IF "operation" \notin DOMAIN h_context
       THEN /\ HandlerReturn(None)
            /\ UNCHANGED <<h_attempt, h_sleeps, h_operations, h_caught>>
       ELSE IF h_attempt < handler_max_retries
       THEN /\ h_sleeps' = Append(h_sleeps, backoff_delay(h_attempt))
            /\ h_operations' = h_operations + 1
            /\ \/ /\ HandlerReturn(OperationResult)
                  /\ UNCHANGED <<h_attempt, h_caught>>
               \/ \E kind \in FailureKinds :
                    /\ h_caught' = h_caught \cup {kind}
                    /\ h_attempt' = h_attempt + 1
                    /\ UNCHANGED <<h_pc, h_result, h_raised>>
       ELSE /\ HandlerReturn(None)
            /\ UNCHANGED <<h_attempt, h_sleeps, h_operations, h_caught>>
    /\ UNCHANGED <<h_error, h_context, h_strategy, h_calls, h_issues>>
    /\ UNCHANGED <<pipelineVars, chunkerVars, optimizerVars, queryVars, auxVars>>

\* try: if not chunk: return None; return await context['summarizer']
\* .summarize_chunk(chunk, modified_context); except Exception: return None
RetrySummarization ==
    /\ h_pc = "retry_summarization"
    /\ IF "chunk" \notin DOMAIN h_context
       THEN /\ HandlerReturn(None)
            /\ UNCHANGED <<h_calls, h_caught>>
       ELSE IF "summarizer" \notin DOMAIN h_context
       THEN /\ HandlerReturn(None)
            /\ h_caught' = h_caught \cup {"KeyError"}
            /\ UNCHANGED h_calls
       ELSE /\ h_calls' = Append(h_calls, modified_context(h_context))
            /\ \/ /\ HandlerReturn(SummarizerResult)
                  /\ UNCHANGED h_caught
               \/ \E kind \in FailureKinds :
                    /\ HandlerReturn(None)
                    /\ h_caught' = h_caught \cup {kind}
    /\ UNCHANGED <<h_error, h_context, h_strategy, h_attempt, h_sleeps,
                   h_operations, h_issues>>
    /\ UNCHANGED <<pipelineVars, chunkerVars, optimizerVars, queryVars, auxVars>>

\* try: quality_issues = analyze_quality_issues(error, context);
\* adjusted_params = adjust_quality_parameters(context, quality_issues);
\* return await context['summarizer'].summarize_chunk(context['chunk'],
\* adjusted_params); except Exception: return None
HandleQualityError ==
    /\ h_pc = "handle_quality_error"
    /\ LET quality_issues == analyze_quality_issues(h_context)
           adjusted_params ==
               adjust_quality_parameters(h_context, quality_issues)
       IN  /\ h_issues' = quality_issues
           /\ IF \/ "summarizer" \notin DOMAIN h_context
                 \/ "chunk" \notin DOMAIN h_context
              THEN /\ HandlerReturn(None)
                   /\ h_caught' = h_caught \cup {"KeyError"}
                   /\ UNCHANGED h_calls
              ELSE /\ h_calls' = Append(h_calls, adjusted_params)
                   /\ \/ /\ HandlerReturn(SummarizerResult)
                         /\ UNCHANGED h_caught
                      \/ \E kind \in FailureKinds :
                           /\ HandlerReturn(None)
                           /\ h_caught' = h_caught \cup {kind}
    /\ UNCHANGED <<h_error, h_context, h_strategy, h_attempt, h_sleeps,
                   h_operations>>
    /\ UNCHANGED <<pipelineVars, chunkerVars, optimizerVars, queryVars, auxVars>>

(***************************************************************************)
(* QualityController.calculate_metrics.  A score is the fraction num/den;  *)
(* a summary is given by the word count of each piece of                   *)
(* summary.split('.') and by the technical terms found in it.              *)
(***************************************************************************)
Score(num, den) == [num |-> num, den |-> den]

Terms == {"API", "GPU", "LLM"}

SentenceSizes == {0, 20, 30, 80}

SentenceSeqs ==
    UNION { [1..n -> SentenceSizes] : n \in 1..MaxSentences }

\* what check_context_coherence can return
CoherenceScores == { Score(0, 1), Score(1, 2), Score(1, 1) }

RECURSIVE SumWords(_)
SumWords(sizes) == IF sizes = <<>> THEN 0 ELSE Head(sizes) + SumWords(Tail(sizes))

\* the body builds key_elements and ends: the coroutine returns None
check_content_preservation(source_terms, summary_terms) == None

\* if not original_terms: return 1.0
\* return len(original_terms.intersection(summary_terms)) / len(original_terms)
check_technical_accuracy(source_terms, summary_terms) ==
    IF source_terms = {} THEN Score(1, 1)
    ELSE Score(Cardinality(source_terms \cap summary_terms),
               Cardinality(source_terms))

\* avg = sum(len(s.split()) for s in sentences) / len(sentences);
\* max(0, 1 - (avg - 25) / 25) when avg > 25, else 1.0
check_readability(sentences) ==
    LET words == SumWords(sentences)
        n == Len(sentences)
    IN  IF words > 25 * n
        THEN IF 50 * n - words > 0 THEN Score(50 * n - words, 25 * n)
             ELSE Score(0, 1)
        ELSE Score(1, 1)

MetricsIdle ==
    /\ m_pc = "idle"
    /\ m_source_terms = {}
    /\ m_summary_terms = {}
    /\ m_sentences = <<>>
    /\ m_metrics = None

MetricsInit ==
    /\ m_pc = "calculate_metrics"
    /\ m_source_terms \in SUBSET Terms
    /\ m_summary_terms \in SUBSET Terms
    /\ m_sentences \in SentenceSeqs
    /\ m_metrics = None

\* return QualityMetrics(content_preservation=..., technical_accuracy=...,
\* readability=..., context_coherence=...)
CalculateMetrics ==
    /\ m_pc = "calculate_metrics"
    /\ \E coherence \in CoherenceScores :
         m_metrics' =
             QualityMetrics(
                 check_content_preservation(m_source_terms, m_summary_terms),
                 check_technical_accuracy(m_source_terms, m_summary_terms),
                 check_readability(m_sentences),
                 coherence)
    /\ m_pc' = "returned"
    /\ UNCHANGED <<m_source_terms, m_summary_terms, m_sentences>>
    /\ UNCHANGED <<pipelineVars, chunkerVars, optimizerVars, queryVars,
                   handlerVars, termCacheVars, embeddingVars, extraVars>>

(***************************************************************************)
(* TermCache.  The cache maps a term to the created_at of its explanation; *)
(* created_at values are distinct.                                         *)
(***************************************************************************)
evict_batch == 100

CacheTerms == {"API", "GPU", "LLM", "SDK"}

\* the created_at an explanation passed to the n-th add_term call can
\* carry: made just now, or made before the previous call's
CreatedAt(n) == { 2 * n, 2 * n - 3 }

\* sorted(self.cache.items(), key=created_at)[:n], deleted one by one
RECURSIVE RemoveOldest(_, _)
RemoveOldest(cache, n) ==
    IF n = 0 \/ DOMAIN cache = {} THEN cache
    ELSE LET oldest == CHOOSE t \in DOMAIN cache :
                           \A u \in DOMAIN cache : cache[t] <= cache[u]
         IN  RemoveOldest([u \in DOMAIN cache \ {oldest} |-> cache[u]], n - 1)

\* if len(self.cache) >= self.max_size: delete the oldest 100;
\* self.cache[term] = explanation
add_term(cache, term, created_at) ==
    LET kept == IF Cardinality(DOMAIN cache) >= max_cache_size
                THEN RemoveOldest(cache, evict_batch)
                ELSE cache
    IN  (term :> created_at) @@ kept

TermCacheInit ==
    /\ tc_cache = <<>>
    /\ tc_adds = 0
    /\ tc_before = <<>>
    /\ tc_term = "None"

AddTerm ==
    /\ tc_adds < MaxAdds
    /\ \E term \in CacheTerms, created_at \in CreatedAt(tc_adds + 1) :
         /\ tc_cache' = add_term(tc_cache, term, created_at)
         /\ tc_term' = term
    /\ tc_before' = tc_cache
    /\ tc_adds' = tc_adds + 1
    /\ UNCHANGED <<pipelineVars, chunkerVars, optimizerVars, queryVars,
                   handlerVars, metricVars, embeddingVars, extraVars>>

(***************************************************************************)
(* SemanticProcessor.get_embedding, called any number of times, one call   *)
(* after the other.                                                        *)
(***************************************************************************)
Texts == {"text1", "text2", "text3"}

\* what the embedding oracle can answer (it need not answer the same twice)
OracleVectors == {EA, EB}

\* faulty variant: the embedding is returned but not kept
cache_store_skipped(cache, text, embedding) == cache

\* self.embedding_cache[text] = embedding
cache_store(cache, text, embedding) == (text :> embedding) @@ cache

EmbeddingInit ==
    /\ embedding_cache = <<>>
    /\ e_oracle_calls = 0
    /\ e_last = None
    /\ e_first = <<>>

Returned(text, embedding, hit) ==
    [text |-> text, outcome |-> "returned", embedding |-> embedding,
     from_cache |-> hit]

GetEmbedding ==
    /\ \E text \in Texts :
         IF text \in DOMAIN embedding_cache
         THEN /\ e_last' = Returned(text, embedding_cache[text], TRUE)
              /\ UNCHANGED <<embedding_cache, e_oracle_calls, e_first>>
         ELSE /\ e_oracle_calls < MaxOracleCalls
              /\ e_oracle_calls' = e_oracle_calls + 1
              /\ \/ \E embedding \in OracleVectors :
                      /\ embedding_cache' =
                             cache_store(embedding_cache, text, embedding)
                      /\ e_last' = Returned(text, embedding, FALSE)
                      /\ e_first' = IF text \in DOMAIN e_first THEN e_first
                                    ELSE (text :> embedding) @@ e_first
                 \/ /\ e_last' = [text |-> text, outcome |-> "raised",
                                  embedding |-> None, from_cache |-> FALSE]
                    /\ UNCHANGED <<embedding_cache, e_first>>
    /\ UNCHANGED <<pipelineVars, chunkerVars, optimizerVars, queryVars,
                   handlerVars, metricVars, termCacheVars, extraVars>>

(***************************************************************************)
(* SemanticProcessor.get_embedding called by several coroutines of one     *)
(* event loop.  A coroutine runs alone up to its await of the oracle call; *)
(* other coroutines run while it is suspended there.                       *)
(***************************************************************************)
Callers == 1..MaxCallers

CoInit ==
    /\ co_cache = <<>>
    /\ co_pc = [c \in Callers |-> "idle"]
    /\ co_text = [c \in Callers |-> "None"]
    /\ co_result = [c \in Callers |-> None]
    /\ co_calls = [t \in Texts |-> 0]

\* if text in self.embedding_cache: return self.embedding_cache[text]
\* otherwise: response = await openai.Embedding.create(...)
CoGetEmbedding(c) ==
    /\ co_pc[c] # "awaiting"
    /\ \E text \in Texts :
         /\ co_text' = [co_text EXCEPT ![c] = text]
         /\ IF text \in DOMAIN co_cache
            THEN /\ co_result' = [co_result EXCEPT ![c] = co_cache[text]]
                 /\ co_pc' = [co_pc EXCEPT ![c] = "returned"]
                 /\ UNCHANGED co_calls
            ELSE /\ co_calls[text] < MaxOracleCalls
                 /\ co_calls' = [co_calls EXCEPT ![text] = @ + 1]
                 /\ co_result' = [co_result EXCEPT ![c] = None]
                 /\ co_pc' = [co_pc EXCEPT ![c] = "awaiting"]
    /\ UNCHANGED co_cache
    /\ UNCHANGED <<pipelineVars, chunkerVars, optimizerVars, queryVars,
                   handlerVars, metricVars, termCacheVars, embeddingVars,
                   runVars, termVars>>

\* the awaited oracle call completes: the embedding is stored and returned,
\* or the exception is logged and raised again
CoOracleDone(c) ==
    /\ co_pc[c] = "awaiting"
    /\ \/ \E embedding \in OracleVectors :
            /\ co_cache' = cache_store(co_cache, co_text[c], embedding)
            /\ co_result' = [co_result EXCEPT ![c] = embedding]
            /\ co_pc' = [co_pc EXCEPT ![c] = "returned"]
       \/ /\ co_pc' = [co_pc EXCEPT ![c] = "raised"]
          /\ UNCHANGED <<co_cache, co_result>>
    /\ UNCHANGED <<co_text, co_calls>>
    /\ UNCHANGED <<pipelineVars, chunkerVars, optimizerVars, queryVars,
                   handlerVars, metricVars, termCacheVars, embeddingVars,
                   runVars, termVars>>

(***************************************************************************)
(* TechnicalTermProcessor.get_term_explanations, called once per chunk on  *)
(* the processor made in PodcastSummarizer.__init__.  An explanation is    *)
(* the term with the number of the call that generated it.                 *)
(***************************************************************************)
TermVocabulary == {"API", "GPU", "LLM", "SDK"}

TermProcessorInit ==
    /\ tp_pc = "idle"
    /\ tp_cache = <<>>
    /\ tp_terms = {}
    /\ tp_todo = {}
    /\ tp_explanations = <<>>
    /\ tp_called = {}
    /\ tp_failed = {}
    /\ tp_before = <<>>
    /\ tp_count = 0

\* faulty variant: the cache is not consulted
term_cached_never(cache, term) == FALSE

\* if term in self.term_cache
term_cached(cache, term) == term \in DOMAIN cache

\* the dict generate_term_explanation returns
Explanation(term, call) == [term |-> term, created_at |-> call]

\* explanations = {}; for term in terms:
GetTermExplanations ==
    /\ tp_pc \in {"idle", "returned"}
    /\ tp_count < MaxTermCalls
    /\ \E terms \in SUBSET TermVocabulary :
         /\ tp_terms' = terms
         /\ tp_todo' = terms
    /\ tp_explanations' = <<>>
    /\ tp_called' = {}
    /\ tp_failed' = {}
    /\ tp_before' = tp_cache
    /\ tp_count' = tp_count + 1
    /\ tp_pc' = "loop"
    /\ UNCHANGED tp_cache
    /\ UNCHANGED <<pipelineVars, chunkerVars, optimizerVars, queryVars,
                   handlerVars, metricVars, termCacheVars, embeddingVars,
                   runVars, coVars>>

\* one iteration of the for loop, for a term in the set's iteration order
ExplainTerm ==
    /\ tp_pc = "loop"
    /\ \E term \in tp_todo :
         /\ tp_todo' = tp_todo \ {term}
         /\ IF term_cached(tp_cache, term)
            THEN /\ tp_explanations' =
                        (term :> tp_cache[term]) @@ tp_explanations
                 /\ UNCHANGED <<tp_cache, tp_called, tp_failed>>
            ELSE /\ tp_called' = tp_called \cup {term}
                 /\ \/ LET explanation == Explanation(term, tp_count)
                        IN  /\ tp_cache' = (term :> explanation) @@ tp_cache
                            /\ tp_explanations' =
                                   (term :> explanation) @@ tp_explanations
                            /\ UNCHANGED tp_failed
                    \/ /\ tp_failed' = tp_failed \cup {term}
                       /\ UNCHANGED <<tp_cache, tp_explanations>>
    /\ UNCHANGED <<tp_pc, tp_terms, tp_before, tp_count>>
    /\ UNCHANGED <<pipelineVars, chunkerVars, optimizerVars, queryVars,
                   handlerVars, metricVars, termCacheVars, embeddingVars,
                   runVars, coVars>>

\* return explanations
TermsReturn ==
    /\ tp_pc = "loop"
    /\ tp_todo = {}
    /\ tp_pc' = "returned"
    /\ UNCHANGED <<tp_cache, tp_terms, tp_todo, tp_explanations, tp_called,
                   tp_failed, tp_before, tp_count>>
    /\ UNCHANGED <<pipelineVars, chunkerVars, optimizerVars, queryVars,
                   handlerVars, metricVars, termCacheVars, embeddingVars,
                   runVars, coVars>>

ExtraIdle ==
    /\ runs = 0
    /\ CoInit
    /\ TermProcessorInit

AuxIdle == MetricsIdle /\ TermCacheInit /\ EmbeddingInit /\ ExtraIdle

(***************************************************************************)
(* Specifications.                                                         *)
(***************************************************************************)
Init ==
    /\ PipelineInit /\ ChunkerIdle /\ OptimizerIdle /\ QueryIdle
    /\ HandlerIdle /\ AuxIdle

Next ==
    \/ ProcessDocument
    \/ CreateChunks
    \/ GetRelevantContext
    \/ ProcessTerms
    \/ SummarizeChunk
    \/ ValidateSummary
    \/ RetrySummary
    \/ AcceptOrAbort
    \/ CreateFinalOutput

\* one run of process_podcast
Spec == Init /\ [][Next]_vars

\* one run of process_podcast in which every awaited collaborator call
\* returns or raises, so that the step the run is at is eventually taken
SpecFair == Init /\ [][Next]_vars /\ WF_vars(Next)

\* process_podcast called again and again on one PodcastSummarizer
SpecRuns == Init /\ [][Next \/ ProcessPodcastAgain]_vars

TermProcessorNext == GetTermExplanations \/ ExplainTerm \/ TermsReturn

\* get_term_explanations called for one chunk after the other
SpecTermProcessor == Init /\ [][TermProcessorNext]_vars

ConcurrentNext ==
    \E c \in Callers : CoGetEmbedding(c) \/ CoOracleDone(c)

\* get_embedding called by concurrent coroutines on one SemanticProcessor
SpecConcurrent == Init /\ [][ConcurrentNext]_vars

\* update_context called any number of times on one ContextManager
ContextNext == UpdateContext \/ QueryContext

SpecContext == Init /\ [][ContextNext]_vars

ChunkerNext == ChunkParagraph \/ ChunkReturn

\* create_chunks on any paragraph sequence
InitChunker ==
    /\ PipelineInit /\ ChunkerInit /\ OptimizerIdle /\ QueryIdle
    /\ HandlerIdle /\ AuxIdle

SpecChunker == InitChunker /\ [][ChunkerNext]_vars

OptimizerNext == OptimizeStep \/ OptimizeReturn

\* optimize_chunks on any non-empty chunk sequence
InitOptimizer ==
    /\ PipelineInit /\ ChunkerIdle /\ OptimizerInit /\ QueryIdle
    /\ HandlerIdle /\ AuxIdle

SpecOptimizer == InitOptimizer /\ [][OptimizerNext]_vars

HandlerNext ==
    \/ HandleError
    \/ RetryDocumentProcessing
    \/ RetrySummarization
    \/ HandleQualityError

\* handle_error called with any error and any context
InitHandler ==
    /\ PipelineInit /\ ChunkerIdle /\ OptimizerIdle /\ QueryIdle
    /\ HandlerInit /\ AuxIdle

SpecHandler == InitHandler /\ [][HandlerNext]_vars

\* calculate_metrics on any summary and source chunk
InitMetrics ==
    /\ PipelineInit /\ ChunkerIdle /\ OptimizerIdle /\ QueryIdle
    /\ HandlerIdle /\ MetricsInit /\ TermCacheInit /\ EmbeddingInit
    /\ ExtraIdle

SpecMetrics == InitMetrics /\ [][CalculateMetrics]_vars

\* add_term called any number of times on one TermCache
SpecTermCache == Init /\ [][AddTerm]_vars

\* get_embedding called any number of times on one SemanticProcessor
SpecEmbedding == Init /\ [][GetEmbedding]_vars

(***************************************************************************)
(* Properties.                                                             *)
(***************************************************************************)
LoopPositions == {"get_relevant_context", "process_terms", "summarize_chunk",
                  "validate_summary", "retry_summary", "validated"}

\* the last n elements of a sequence (all of them when it is shorter)
LastN(seq, n) ==
    IF Len(seq) <= n THEN seq ELSE SubSeq(seq, Len(seq) - n + 1, Len(seq))

\* C1: process_podcast returns an artifact only when every chunk of the
\* document was summarized (one section per chunk, in chunk order, and
\* chunk_count equal to the number of chunks); a run that raised, whatever
\* the chunk it failed at, has returned no artifact.
C1_AllOrNothing ==
    /\ result # None =>
         /\ pc = "returned"
         /\ error = NoError
         /\ Len(chunks) >= 1
         /\ result.metadata.chunk_count = Len(chunks)
         /\ Len(result.summary) = Len(chunks)
         /\ \A k \in 1..Len(chunks) : result.summary[k].text.chunk = k
    /\ error # NoError => pc = "raised" /\ result = None

\* a terminal quality failure of chunk 2 after chunk 1 was accepted
C1_Witness ==
    /\ pc = "raised"
    /\ error = "QualityCheckError"
    /\ idx = 2
    /\ Len(summaries) = 1
    /\ result = None

\* C2: for every chunk, validate_summary retries at most max_retries times:
\* the retry count never exceeds max_retries, the summarization oracle is
\* called at most max_retries + 1 times for the chunk, and the terminal
\* quality failure is raised exactly at the (max_retries + 1)-th rejection,
\* after which the run has stopped.
C2_RetriesBounded ==
    /\ retry_count <= max_retries
    /\ oracle_calls <= max_retries + 1
    /\ pc = "retry_summary" => oracle_calls = retry_count
    /\ error = "QualityCheckError" =>
         /\ pc = "raised"
         /\ retry_count = max_retries
         /\ oracle_calls = max_retries + 1
         /\ candidate.gen = max_retries

\* the third consecutive rejection of a chunk's summaries
C2_Witness ==
    /\ error = "QualityCheckError"
    /\ retry_count = max_retries
    /\ oracle_calls = max_retries + 1

\* C3: every summary appended to the run's summaries and stored in the
\* context window has metrics that all clear min_quality_score.
C3_StoredSummariesPassed ==
    /\ \A k \in 1..Len(summaries) :
         \A metric \in MetricNames :
             summaries[k].summary.q[metric] >= min_quality_score
    /\ \A k \in 1..Len(context_window) :
         \A metric \in MetricNames :
             context_window[k].summary.q[metric] >= min_quality_score

\* C4: after any sequence of update_context calls the window holds at most
\* context_window_size entries, and they are the most recently inserted
\* entries in insertion order.
C4_WindowIsRecentSuffix ==
    /\ Len(context_window) <= max_context_chunks
    /\ context_window = LastN(inserted, max_context_chunks)

\* an insertion into a full window has evicted the oldest entry
C4_Witness ==
    /\ Len(inserted) = max_context_chunks + 1
    /\ Len(context_window) = max_context_chunks
    /\ context_window[1] = inserted[2]

\* C5: chunks are processed one at a time in ordinal order: while any step
\* of chunk idx is under way, chunks 1..idx-1 and no others have been
\* accepted, the window update of chunk idx-1 is complete (its entry is the
\* newest of the window), and the summary being produced is chunk idx's.
C5_SequentialChunks ==
    pc \in LoopPositions =>
        /\ idx \in 1..Len(chunks)
        /\ Len(summaries) = idx - 1
        /\ \A k \in 1..(idx - 1) : summaries[k].summary.chunk = k
        /\ Len(inserted) = idx - 1
        /\ \A k \in 1..(idx - 1) : inserted[k].chunk_text = k
        /\ idx > 1 =>
             /\ context_window # <<>>
             /\ context_window[Len(context_window)].chunk_text = idx - 1
        /\ pc \in {"validate_summary", "retry_summary", "validated"} =>
             summary.summary.chunk = idx /\ candidate.chunk = idx

\* the query of chunk 2 has been answered from chunk 1's entry
C5_Witness ==
    /\ pc = "process_terms"
    /\ idx = 2
    /\ context # None
    /\ context.summaries[1].chunk = 1

\* C6: every chunk returned by create_chunks other than the final chunk and
\* other than a chunk made of a single paragraph larger than max_chunk_size
\* has a word count between min_chunk_size and max_chunk_size.
C6_NonFinalChunksInBounds ==
    cm_pc = "returned" =>
        \A k \in 1..(Len(cm_chunks) - 1) :
            LET chunk == cm_chunks[k]
                oversized == Len(chunk.text) = 1
                             /\ chunk.text[1].words > max_chunk_size
            IN  ~oversized =>
                    chunk.size >= min_chunk_size /\ chunk.size <= max_chunk_size

\* C7: for any non-empty text create_chunks returns at least one chunk and
\* every returned chunk, the final one included, has a word count between
\* min_chunk_size and max_chunk_size.
C7_AllChunksInBounds ==
    (cm_pc = "returned" /\ WordCount(paragraphs) > 0) =>
        /\ Len(cm_chunks) >= 1
        /\ \A k \in 1..Len(cm_chunks) :
               /\ cm_chunks[k].size >= min_chunk_size
               /\ cm_chunks[k].size <= max_chunk_size

\* the sizes of the input chunks with the given ids, added up
RECURSIVE InputSize(_, _)
InputSize(ids, input) ==
    IF ids = <<>> THEN 0 ELSE input[Head(ids)].size + InputSize(Tail(ids), input)

\* C8: in optimize_chunks the running chunk is merged with the next chunk
\* if and only if their cosine similarity is strictly above 0.85 and their
\* combined size is at most max_chunk_size; a merged chunk's size is the sum
\* of the sizes of the input chunks it concatenates and is at most
\* max_chunk_size.
C8_MergeIffSimilarAndFits ==
    /\ (opt_pc = "loop" /\ opt_compared # None) =>
         LET a == opt_compared.current
             b == opt_compared.next
             dot == Dot(a.embedding.v, b.embedding.v)
             similar == /\ dot > 0
                        /\ 400 * dot * dot >
                             289 * Dot(a.embedding.v, a.embedding.v)
                                 * Dot(b.embedding.v, b.embedding.v)
             fits == a.size + b.size <= 1000
         IN  IF similar /\ fits
             THEN /\ opt_current.text = a.text \o b.text
                  /\ opt_current.size = a.size + b.size
                  /\ opt_current.size <= max_chunk_size
             ELSE /\ opt_current = b
                  /\ optimized_chunks # <<>>
                  /\ optimized_chunks[Len(optimized_chunks)] = a
    /\ opt_pc = "returned" =>
         \A k \in 1..Len(optimized_chunks) :
             LET chunk == optimized_chunks[k]
             IN  /\ chunk.size = InputSize(chunk.text, opt_chunks)
                 /\ Len(chunk.text) > 1 => chunk.size <= max_chunk_size

\* two chunks of 400 words with similarity 0.9 give one chunk of 800 words
C8_Witness ==
    /\ opt_pc = "returned"
    /\ Len(opt_chunks) = 2
    /\ opt_chunks[1].embedding = EA /\ opt_chunks[1].size = 400
    /\ opt_chunks[2].embedding = EB /\ opt_chunks[2].size = 400
    /\ Len(optimized_chunks) = 1
    /\ optimized_chunks[1].size = 800

\* C9: the quality gate accepts the summary it evaluated if and only if each
\* of the four metrics is at least min_quality_score (0.8): an accepted
\* summary has all four at 80 or more, and a summary sent to retry or
\* rejected terminally has one below 80.
C9_AcceptIffAllMetricsPass ==
    LET m == candidate.q
        all_pass == /\ m.content_preservation >= 80
                    /\ m.technical_accuracy >= 80
                    /\ m.readability >= 80
                    /\ m.context_coherence >= 80
    IN  /\ pc = "validated" =>
              all_pass /\ validation.valid /\ validation.metrics = m
        /\ (pc = "retry_summary" \/ error = "QualityCheckError") => ~all_pass

\* a summary whose metrics all equal min_quality_score has been accepted
C9_Witness ==
    /\ pc = "validated"
    /\ candidate.q = QualityMetrics(80, 80, 80, 80)
    /\ validation.valid

\* C10: under the default configuration, the metrics that validate_summary
\* reports with its result satisfy content_preservation >= 0.8,
\* technical_accuracy >= 0.85 and readability >= 0.8.
C10_ReportedMetricsMeetTestThresholds ==
    validation # None =>
        /\ validation.metrics.content_preservation >= 80
        /\ validation.metrics.technical_accuracy >= 85
        /\ validation.metrics.readability >= 80


(***************************************************************************)
(* C11: validating a summary whose four metrics all reach                  *)
(* min_quality_score accepts it on the spot: the returned dict is valid    *)
(* and reports the attempt count validate_summary was called with, the     *)
(* attempt count itself does not move, the summarization oracle is not     *)
(* called and no generation parameter changes.                             *)
(***************************************************************************)
C11_AcceptLeavesStateAlone ==
    [][ ( /\ pc = "validate_summary"
          /\ \A metric \in MetricNames :
                 candidate.q[metric] >= min_quality_score )
        => ( /\ pc' = "validated"
             /\ validation'.valid
             /\ validation'.retry_count = retry_count
             /\ retry_count' = retry_count
             /\ oracle_calls' = oracle_calls
             /\ oracle_params' = oracle_params
             /\ params' = params
             /\ candidate' = candidate ) ]_vars

\* a first summary was accepted by the first validate_summary call
C11_Witness ==
    /\ pc = "validated"
    /\ validation.valid
    /\ validation.retry_count = 0
    /\ retry_count = 0
    /\ oracle_calls = 1
    /\ params = DefaultParams

(***************************************************************************)
(* C12: when the summary regenerated by the last allowed retry is rejected *)
(* too (max_retries + 1 rejections in a row), the run ends with an error   *)
(* of kind QualityError reaching the caller, and no artifact is returned.  *)
(***************************************************************************)
C12_ExhaustionRaisesQualityError ==
    ( /\ pc = "raised"
      /\ candidate # None
      /\ candidate.gen = max_retries
      /\ ~ \A metric \in MetricNames :
               candidate.q[metric] >= min_quality_score )
    => ( /\ error = "QualityError"
         /\ result = None )

(***************************************************************************)
(* C13: after a rejection below the retry limit the oracle is called once  *)
(* more, and that call carries a temperature above the default and a       *)
(* max_tokens of 1.2 times the previous call's; the attempt count has      *)
(* grown by one and the regenerated summary is the one validated next.     *)
(***************************************************************************)
RECURSIVE ScaledTokens(_)
ScaledTokens(retries) ==
    IF retries = 0 THEN default_max_tokens
    ELSE (ScaledTokens(retries - 1) * 12) \div 10

C13_RetryCallCarriesMutatedParams ==
    ( /\ pc = "validate_summary"
      /\ retry_count > 0 )
    => ( /\ oracle_calls = retry_count + 1
         /\ candidate.gen = retry_count
         /\ oracle_params.temperature > default_temperature
         /\ oracle_params.max_tokens = ScaledTokens(retry_count) )


(***************************************************************************)
(* C14: a query returns the summaries of exactly the window entries whose  *)
(* cosine similarity to the current chunk is strictly above                *)
(* similarity_threshold -- all of them, none at or below it -- in          *)
(* descending order of similarity, with the union of those entries'        *)
(* speakers; it returns no context exactly when the window is empty or no  *)
(* entry is strictly above the threshold.                                  *)
(***************************************************************************)
\* the window entries strictly above the threshold for the last query
\* (current while no update has followed the query)
QueryIsCurrent ==
    /\ query_chunk # None
    /\ query_chunk.text = Len(inserted) + 1

AboveThreshold ==
    { k \in 1..Len(context_window) :
          SimilarityAbove(query_chunk.embedding, context_window[k].embedding,
                          similarity_threshold) }

\* the embedding of the entry a returned summary belongs to
EmbeddingOf(text) == inserted[text.chunk].embedding

C14_QueryReturnsAllAboveThreshold ==
    QueryIsCurrent =>
        IF AboveThreshold = {}
        THEN context = None
        ELSE /\ context # None
             /\ Len(context.summaries) = Cardinality(AboveThreshold)
             /\ { context.summaries[j] : j \in 1..Len(context.summaries) }
                    = { context_window[k].summary : k \in AboveThreshold }
             /\ \A j \in 1..Len(context.summaries) :
                  \A k \in j+1..Len(context.summaries) :
                    ~ MoreSimilar(query_chunk.embedding,
                                  EmbeddingOf(context.summaries[k]),
                                  EmbeddingOf(context.summaries[j]))
             /\ context.speakers
                    = UNION { context_window[k].speakers : k \in AboveThreshold }

\* a full window holding entries at similarity 0.9, 0.85 and 1.0, in that
\* order, is queried: the entry at exactly 0.85 is left out and the two
\* others come back most similar first, the reverse of their window order
C14_Witness ==
    /\ QueryIsCurrent
    /\ query_chunk.embedding = EA
    /\ Len(context_window) = max_context_chunks
    /\ context_window[1].embedding = EB
    /\ context_window[2].embedding = EC
    /\ context_window[3].embedding = EA
    /\ context # None
    /\ context.summaries
           = << context_window[3].summary, context_window[1].summary >>
    /\ context.speakers = {"Alice", "Bob"}


(***************************************************************************)
(* C15: handle_error called with an error whose kind is none of            *)
(* DocumentProcessingError, SummarizationError and QualityError (the base  *)
(* PodcastSummarizerError included) raises that same error and runs no     *)
(* strategy, waits for nothing and calls no collaborator; an error of one  *)
(* of the three kinds runs that kind's own strategy and no other.          *)
(***************************************************************************)
RegisteredKinds ==
    { "DocumentProcessingError", "SummarizationError", "QualityError" }

OwnStrategy ==
    [ DocumentProcessingError |-> "retry_document_processing",
      SummarizationError      |-> "retry_summarization",
      QualityError            |-> "handle_quality_error" ]

C15_DispatchByKind ==
    h_pc \notin {"idle", "handle_error"} =>
        IF h_error \in RegisteredKinds
        THEN /\ h_strategy = { OwnStrategy[h_error] }
             /\ h_pc # "raised"
        ELSE /\ h_pc = "raised"
             /\ h_raised = h_error
             /\ h_result = None
             /\ h_strategy = {}
             /\ h_sleeps = <<>>
             /\ h_operations = 0
             /\ h_calls = <<>>

\* the base class was passed in, with a context that has everything a
\* strategy would use, and came back out as the raised error
C15_Witness ==
    /\ h_pc = "raised"
    /\ h_error = "PodcastSummarizerError"
    /\ h_raised = "PodcastSummarizerError"
    /\ DOMAIN h_context = ContextKeys

(***************************************************************************)
(* C16: an error of no registered kind never becomes a normal return of    *)
(* the error-handling code: passed to handle_error it is raised, and       *)
(* raised by the operation or collaborator a strategy is retrying it is    *)
(* not swallowed and replaced by a return.                                 *)
(***************************************************************************)
Unclassified(kind) ==
    \A cls \in RegisteredKinds : ~ IsInstance(kind, cls)

C16_UnclassifiedNeverAbsorbed ==
    /\ ( Unclassified(h_error) /\ h_pc \notin {"idle", "handle_error"} )
           => ( h_pc = "raised" /\ h_raised = h_error )
    /\ h_pc = "returned"
           => \A kind \in h_caught \cap FailureKinds : ~ Unclassified(kind)

(***************************************************************************)
(* C17: retry_document_processing invokes the operation at most            *)
(* max_retries times, sleeps 2^k before invocation number k (k = 0, 1,     *)
(* ...), returns the first successful result without invoking again, and   *)
(* returns no result, raising nothing, when every invocation failed or     *)
(* the context has no operation.                                           *)
(***************************************************************************)
C17_BackoffRetries ==
    h_strategy = {"retry_document_processing"} =>
        /\ h_operations <= handler_max_retries
        /\ Len(h_sleeps) = h_operations
        /\ \A k \in 1..Len(h_sleeps) : h_sleeps[k] = Pow2(k - 1)
        /\ h_pc # "raised"
        /\ h_pc = "returned" =>
             \/ /\ h_result = OperationResult
                /\ h_operations = h_attempt + 1
             \/ /\ h_result = None
                /\ h_operations = h_attempt
                /\ IF "operation" \in DOMAIN h_context
                   THEN h_operations = handler_max_retries
                   ELSE h_operations = 0

\* every invocation failed: three of them, after sleeping 1, 2 and 4
C17_Witness ==
    /\ h_strategy = {"retry_document_processing"}
    /\ h_pc = "returned"
    /\ h_result = None
    /\ h_operations = 3
    /\ h_sleeps = <<1, 2, 4>>

C20_RegisteredFailureIsRecovered ==
    ( pc = "raised" /\ error \in RegisteredKinds ) => h_strategy # {}


(***************************************************************************)
(* C21: the chunks the loop of process_podcast iterates are what           *)
(* ChunkOptimizer returned: by the time the first chunk's context is       *)
(* queried, optimize_chunks has run to completion and its output is the    *)
(* chunk sequence.                                                         *)
(***************************************************************************)
C21_LoopIteratesOptimizerOutput ==
    pc \in LoopPositions =>
        /\ opt_pc = "returned"
        /\ Len(chunks) = Len(optimized_chunks)

(***************************************************************************)
(* C22: a paragraph with more words than max_chunk_size ends up in a chunk *)
(* of its own: one chunk holds exactly that paragraph, and no other chunk  *)
(* and no buffer holds it.                                                 *)
(***************************************************************************)
Holds(paras, para) == \E k \in 1..Len(paras) : paras[k] = para

C22_OversizedParagraphAlone ==
    \A k \in 1..Len(paragraphs) :
        ( k < para_idx /\ paragraphs[k].words > max_chunk_size ) =>
            /\ ~ Holds(current_chunk, paragraphs[k])
            /\ \E c \in 1..Len(cm_chunks) :
                 /\ cm_chunks[c].text = << paragraphs[k] >>
                 /\ \A d \in 1..Len(cm_chunks) :
                        d # c => ~ Holds(cm_chunks[d].text, paragraphs[k])

\* 50, 1200 and 50 words: three chunks, the middle one the big paragraph
C22_Witness ==
    /\ cm_pc = "returned"
    /\ Len(paragraphs) = 3
    /\ paragraphs[1].words = 50
    /\ paragraphs[2].words = 1200
    /\ paragraphs[3].words = 50
    /\ Len(cm_chunks) = 3
    /\ cm_chunks[2].text = << paragraphs[2] >>

(***************************************************************************)
(* C23: the paragraphs of the returned chunks, read in output order, are   *)
(* the input paragraphs in input order, each once; the size of a chunk is  *)
(* the sum of the word counts of its paragraphs.                           *)
(***************************************************************************)
RECURSIVE Flatten(_)
Flatten(chunkseq) ==
    IF chunkseq = <<>> THEN <<>>
    ELSE Head(chunkseq).text \o Flatten(Tail(chunkseq))

RECURSIVE TotalWords(_)
TotalWords(paras) ==
    IF paras = <<>> THEN 0 ELSE paras[1].words + TotalWords(Tail(paras))

C23_ChunksConcatenateToInput ==
    /\ cm_pc = "returned" => Flatten(cm_chunks) = paragraphs
    /\ cm_pc = "loop" =>
           Flatten(cm_chunks) \o current_chunk
               = SubSeq(paragraphs, 1, para_idx - 1)
    /\ \A c \in 1..Len(cm_chunks) :
           cm_chunks[c].size = TotalWords(cm_chunks[c].text)

\* 200, 300 and 50 words: a chunk of the first two paragraphs (500 words)
\* and a chunk of the third
C23_Witness ==
    /\ cm_pc = "returned"
    /\ Len(paragraphs) = 3
    /\ Len(cm_chunks) = 2
    /\ Len(cm_chunks[1].text) = 2
    /\ cm_chunks[1].size = 500
    /\ cm_chunks[2].text = << paragraphs[3] >>

(***************************************************************************)
(* C24: the buffer is flushed as one chunk as soon as a paragraph brings   *)
(* it to min_chunk_size words or more, and a non-empty buffer is flushed   *)
(* before a paragraph that would take it above max_chunk_size is added.    *)
(* So the open buffer is always below min_chunk_size, and every chunk was  *)
(* below min_chunk_size before its last paragraph and was closed by        *)
(* reaching min_chunk_size, by the next paragraph not fitting, or by the   *)
(* end of the input; a chunk of several paragraphs is within the maximum.  *)
(***************************************************************************)
C24_FlushAtMinAndBeforeMax ==
    /\ current_size < min_chunk_size
    /\ current_size = TotalWords(current_chunk)
    /\ \A c \in 1..Len(cm_chunks) :
         LET text == cm_chunks[c].text
             size == TotalWords(text)
             last == text[Len(text)]
         IN  /\ size - last.words < min_chunk_size
             /\ Len(text) > 1 => size <= max_chunk_size
             /\ \/ size >= min_chunk_size
                \/ /\ last.id < Len(paragraphs)
                   /\ size + paragraphs[last.id + 1].words > max_chunk_size
                \/ /\ cm_pc = "returned"
                   /\ c = Len(cm_chunks)
                   /\ last.id = Len(paragraphs)

\* a 50-word paragraph followed by a 600-word paragraph: one chunk of 650
C24_Witness ==
    /\ cm_pc = "returned"
    /\ Len(paragraphs) = 2
    /\ paragraphs[1].words = 50
    /\ paragraphs[2].words = 600
    /\ Len(cm_chunks) = 1
    /\ cm_chunks[1].size = 650
    /\ cm_chunks[1].text = paragraphs


(***************************************************************************)
(* C25: a returned artifact has exactly the keys summary, metadata and     *)
(* technical_terms; its chunk_count is the number of chunks of the         *)
(* document; section i holds the accepted summary of chunk i, that is a    *)
(* summary of chunk i that passed the quality gate.                        *)
(***************************************************************************)
C25_ArtifactListsAcceptedSummaries ==
    pc = "returned" =>
        /\ DOMAIN result = {"summary", "metadata", "technical_terms"}
        /\ result.metadata.chunk_count = Len(chunks)
        /\ Len(result.summary) = Len(chunks)
        /\ \A i \in 1..Len(result.summary) :
             /\ result.summary[i].section = i
             /\ result.summary[i].text.chunk = i
             /\ \A metric \in MetricNames :
                    result.summary[i].text.q[metric] >= min_quality_score

C27_TechnicalAccuracyIsIoU ==
    m_pc = "returned" =>
        LET accuracy == m_metrics.technical_accuracy
            S == m_source_terms
            T == m_summary_terms
        IN  IF S = {} THEN accuracy = Score(1, 1)
            ELSE accuracy.num * Cardinality(S \cup T) =
                     Cardinality(S \cap T) * accuracy.den

\* a value that is a number between 0 and 1
IsUnitNumber(value) ==
    /\ DOMAIN value = {"num", "den"}
    /\ value.den > 0
    /\ 0 <= value.num
    /\ value.num <= value.den

\* C28: each of the four values of the QualityMetrics calculate_metrics
\* returns (content preservation, technical accuracy, readability, context
\* coherence) is a number in [0,1], whatever the summary and the source.
C28_MetricsAreUnitNumbers ==
    m_pc = "returned" =>
        \A metric \in MetricNames : IsUnitNumber(m_metrics[metric])

\* the entries the last add_term call removed
Evicted == (DOMAIN tc_before) \ (DOMAIN tc_cache)

\* C29: add_term evicts only when the cache, with the added term, would be
\* larger than the configured maximum; an eviction removes exactly the 100
\* oldest-created entries (all of them when there are fewer) and no others;
\* the added term is in the cache when add_term returns.
C29_EvictsOnlyAboveMaximum ==
    tc_adds > 0 =>
        /\ tc_term \in DOMAIN tc_cache
        /\ Evicted # {} =>
               /\ Cardinality(DOMAIN tc_before \cup {tc_term}) > max_cache_size
               /\ \E E \in SUBSET (DOMAIN tc_before) :
                     /\ Cardinality(E) =
                            IF Cardinality(DOMAIN tc_before) < evict_batch
                            THEN Cardinality(DOMAIN tc_before)
                            ELSE evict_batch
                     /\ \A t \in E, u \in (DOMAIN tc_before) \ E :
                            tc_before[t] <= tc_before[u]
                     /\ DOMAIN tc_cache = ((DOMAIN tc_before) \ E) \cup {tc_term}

\* one get_embedding call, as the step from before it to after it
EmbeddingCallKeepsCache ==
    LET text == e_last'.text
    IN  /\ \A t \in DOMAIN embedding_cache :
               /\ t \in DOMAIN embedding_cache'
               /\ embedding_cache'[t] = embedding_cache[t]
        /\ text \in DOMAIN e_first =>
               /\ e_last'.outcome = "returned"
               /\ e_last'.embedding = e_first[text]
               /\ e_oracle_calls' = e_oracle_calls
        /\ e_last'.outcome = "raised" =>
               /\ e_oracle_calls' = e_oracle_calls + 1
               /\ embedding_cache' = embedding_cache
        /\ (e_last'.outcome = "returned" /\ ~e_last'.from_cache) =>
               /\ text \in DOMAIN embedding_cache'
               /\ embedding_cache'[text] = e_last'.embedding

\* C30: with calls made one after the other, once get_embedding succeeded for
\* a text every later call for it returns the same vector and does not call
\* the oracle; a failed oracle call raises and stores nothing; the cache
\* never loses or changes an entry.
C30_EmbeddingCacheStable == [][EmbeddingCallKeepsCache]_vars

\* a text embedded earlier is asked for again after the oracle has also
\* failed once and answered for another text
C30_Witness ==
    /\ e_last # None
    /\ e_last.from_cache
    /\ e_oracle_calls >= 3
    /\ Cardinality(DOMAIN embedding_cache) = 2

\* C31: the retry count belongs to one chunk: the first validation of every
\* chunk starts at attempt 0 whatever the earlier chunks used, so a chunk is
\* given up only after max_retries retries of its own.
C31_RetryCountPerChunk ==
    /\ (pc = "validate_summary" /\ oracle_calls = 1) => retry_count = 0
    /\ pc \in {"validate_summary", "retry_summary", "validated"} =>
           candidate.chunk = idx
    /\ pc = "validate_summary" => retry_count = candidate.gen
    /\ error = "QualityCheckError" =>
           /\ candidate.chunk = idx
           /\ candidate.gen = max_retries

\* the second chunk reaches its last retry after the first chunk was
\* accepted on a retry
C31_Witness ==
    /\ idx = 2
    /\ Len(summaries) = 1
    /\ ~meets_quality_standards(summaries[1].summary.q)
    /\ pc = "retry_summary"
    /\ retry_count = max_retries

\* the summaries the run has stored for the chunks before the current one
StoredSoFar == { summaries[j].summary : j \in 1..Len(summaries) }

\* C32: every summary the context query returns for chunk i is the summary
\* the run accepted for a chunk j < i of the same run; for the first chunk of
\* a run the query returns no context, also on a PodcastSummarizer that has
\* completed or aborted a run before.
C32_ContextFromSameRun ==
    pc = "process_terms" =>
        /\ idx = 1 => context = None
        /\ context # None =>
               /\ Len(summaries) = idx - 1
               /\ \A k \in 1..Len(context.summaries) :
                      /\ context.summaries[k] \in StoredSoFar
                      /\ context.summaries[k].chunk < idx

\* a step of the run that is not the update for an accepted chunk
NotAcceptingStep == ~ (pc = "validated" /\ validation.valid)

\* C33: the window and the run's summaries change only in the step that
\* follows an accepting validation, by update_context and one append; the
\* context query, term extraction, summarization, a rejected or failed
\* validation and a retry leave the window's entries and order, and the
\* summaries, as they were.
C33_WindowChangesOnlyOnAccept ==
    [][ /\ NotAcceptingStep =>
            /\ context_window' = context_window
            /\ summaries' = summaries
        /\ ~NotAcceptingStep =>
            /\ context_window' =
                   update_context(context_window, chunks[idx], summary.summary)
            /\ summaries' = Append(summaries, summary)
      ]_vars

\* the second chunk is given up after its last retry, the first chunk's
\* entry being relevant to it and still the only one in the window
C33_Witness ==
    /\ error = "QualityCheckError"
    /\ idx = 2
    /\ context # None
    /\ Len(context_window) = 1
    /\ Len(summaries) = 1

\* the texts of a chunk sequence, one after the other
RECURSIVE ConcatTexts(_)
ConcatTexts(seq) ==
    IF seq = <<>> THEN <<>> ELSE Head(seq).text \o ConcatTexts(Tail(seq))

\* the sizes of a chunk sequence, added up
RECURSIVE SumSizes(_)
SumSizes(seq) == IF seq = <<>> THEN 0 ELSE Head(seq).size + SumSizes(Tail(seq))

\* C34: the output of optimize_chunks cuts the input into consecutive runs
\* in the original order: the output chunks' texts, one after the other, are
\* the input chunks 1..n each once and in order, every output chunk is the
\* merge of its run, the output is no longer than the input, and the sizes
\* add up to the same total.
C34_OutputPartitionsInput ==
    opt_pc = "returned" =>
        /\ ConcatTexts(optimized_chunks) = [k \in 1..Len(opt_chunks) |-> k]
        /\ \A k \in 1..Len(optimized_chunks) :
               LET chunk == optimized_chunks[k]
               IN  /\ chunk.text # <<>>
                   /\ chunk.size = InputSize(chunk.text, opt_chunks)
                   /\ chunk.speakers =
                          UNION { opt_chunks[chunk.text[j]].speakers
                                  : j \in 1..Len(chunk.text) }
                   /\ Len(chunk.text) = 1 => chunk = opt_chunks[chunk.text[1]]
        /\ Len(optimized_chunks) >= 1
        /\ Len(optimized_chunks) <= Len(opt_chunks)
        /\ SumSizes(optimized_chunks) = SumSizes(opt_chunks)
        /\ optimized_chunks = optimize_chunks(opt_chunks)

\* three chunks become two: the first two merged, the third alone
C34_Witness ==
    /\ opt_pc = "returned"
    /\ Len(opt_chunks) = 3
    /\ Len(optimized_chunks) = 2
    /\ optimized_chunks[1].text = <<1, 2>>
    /\ optimized_chunks[2].text = <<3>>

\* C35: optimize_chunks applied to its own output returns that output
\* unchanged: no two adjacent chunks of an optimized sequence have a
\* similarity above similarity_threshold and a combined size of at most
\* max_chunk_size.
C35_OptimizeIdempotent ==
    opt_pc = "returned" =>
        /\ optimize_chunks(optimized_chunks) = optimized_chunks
        /\ \A k \in 1..(Len(optimized_chunks) - 1) :
               ~ should_merge(optimized_chunks[k], optimized_chunks[k + 1])

\* C35, as it holds: an emitted chunk could not be merged with the input
\* chunk that followed it when it was emitted, the first chunk of its
\* successor's run; a second pass never lengthens the sequence, keeps the
\* partition into consecutive runs, and changes nothing when no two
\* neighbours satisfy the merge test.
C35_EmittedAgainstNextInput ==
    opt_pc = "returned" =>
        LET again == optimize_chunks(optimized_chunks)
        IN  /\ \A k \in 1..(Len(optimized_chunks) - 1) :
                   LET a == optimized_chunks[k]
                       b == opt_chunks[Head(optimized_chunks[k + 1].text)]
                       dot == Dot(a.embedding.v, b.embedding.v)
                       similar == /\ dot > 0
                                  /\ 400 * dot * dot >
                                       289 * Dot(a.embedding.v, a.embedding.v)
                                           * Dot(b.embedding.v, b.embedding.v)
                   IN  ~ (similar /\ a.size + b.size <= 1000)
            /\ Len(again) <= Len(optimized_chunks)
            /\ ConcatTexts(again) = [k \in 1..Len(opt_chunks) |-> k]
            /\ (\A k \in 1..(Len(optimized_chunks) - 1) :
                   ~ should_merge(optimized_chunks[k], optimized_chunks[k + 1]))
                   => again = optimized_chunks

\* the first chunk was emitted against a chunk at similarity 0.85 exactly,
\* which then merged with the third; a second pass would merge all three
C35_Witness ==
    /\ opt_pc = "returned"
    /\ Len(opt_chunks) = 3
    /\ Len(optimized_chunks) = 2
    /\ optimized_chunks[2].text = <<2, 3>>
    /\ Len(optimize_chunks(optimized_chunks)) = 1

\* C36: however concurrent get_embedding calls interleave, the embedding
\* oracle is called at most once for each text, and callers that asked for
\* the same text got the same vector.
C36_OracleOncePerText ==
    /\ \A t \in Texts : co_calls[t] <= 1
    /\ \A c1, c2 \in Callers :
           (/\ co_pc[c1] = "returned" /\ co_pc[c2] = "returned"
            /\ co_text[c1] = co_text[c2]) => co_result[c1] = co_result[c2]

\* C37: in get_term_explanations a term that is in the term cache causes no
\* oracle call and gets the cached explanation; a term whose explanation
\* call fails is in neither the result nor the cache; the other terms are
\* still processed and the call returns, its result holding every term that
\* did not fail.
C37_CachedAndFailedTerms ==
    /\ tp_pc \in {"loop", "returned"} =>
           /\ \A term \in tp_terms \cap DOMAIN tp_before :
                  /\ term \notin tp_called
                  /\ term \in DOMAIN tp_explanations =>
                         tp_explanations[term] = tp_before[term]
           /\ \A term \in tp_failed :
                  /\ term \notin DOMAIN tp_explanations
                  /\ term \notin DOMAIN tp_cache
           /\ \A term \in DOMAIN tp_before :
                  term \in DOMAIN tp_cache /\ tp_cache[term] = tp_before[term]
           /\ DOMAIN tp_explanations = (tp_terms \ tp_todo) \ tp_failed
    /\ tp_pc = "returned" =>
           /\ DOMAIN tp_explanations = tp_terms \ tp_failed
           /\ tp_called = tp_terms \ DOMAIN tp_before
    /\ (tp_pc = "loop" /\ tp_todo = {}) => ENABLED TermsReturn

\* a call returned with one term from the cache, one newly explained and
\* one left out because its explanation call failed
C37_Witness ==
    /\ tp_pc = "returned"
    /\ tp_failed # {}
    /\ tp_terms \cap DOMAIN tp_before # {}
    /\ \E term \in tp_called : term \in DOMAIN tp_explanations

\* C38: a technical-term cache never holds more entries than the configured
\* maximum, whatever is inserted: the TermCache filled by add_term and the
\* term cache the term processor fills while chunks are processed.
C38_TermCachesBounded ==
    /\ Cardinality(DOMAIN tc_cache) <= max_cache_size
    /\ Cardinality(DOMAIN tp_cache) <= max_cache_size

\* process_podcast has returned its artifact or raised its error
Terminated == pc \in {"returned", "raised"}

\* the most steps one chunk can take from the context query to its accept
StepsPerChunk == 2 * max_retries + 5

\* an upper bound on the steps a run can still take
StepsLeft ==
    LET later == (Len(chunks) - idx) * StepsPerChunk + 1
        retries == 2 * (max_retries - retry_count)
    IN  CASE pc = "process_document" -> MaxChunks * StepsPerChunk + 3
          [] pc = "create_chunks" -> MaxChunks * StepsPerChunk + 2
          [] pc = "get_relevant_context" -> later + StepsPerChunk
          [] pc = "process_terms" -> later + StepsPerChunk - 1
          [] pc = "summarize_chunk" -> later + StepsPerChunk - 2
          [] pc = "validate_summary" -> later + retries + 2
          [] pc = "retry_summary" -> later + retries + 3
          [] pc = "validated" -> later + 1
          [] pc = "create_final_output" -> 1
          [] OTHER -> 0

\* with the step the run is at always taken in the end, the run terminates
RunEventuallyTerminates == <>Terminated

\* C39: when every collaborator call returns or raises, a run of
\* process_podcast terminates, with an artifact or with an error, and no
\* chunk has more than max_retries + 1 summaries evaluated by the quality
\* gate: a run that has not terminated can always take a step, every step
\* brings a bounded count of remaining steps down, and the retry count of a
\* chunk never passes max_retries.
C39_RunTerminates ==
    /\ [](Terminated \/ ENABLED Next)
    /\ [](Terminated <=> StepsLeft = 0)
    /\ [][StepsLeft' < StepsLeft /\ StepsLeft' >= 0]_vars
    /\ [](oracle_calls <= max_retries + 1 /\ retry_count <= max_retries)
    /\ [](Terminated => (result # None) # (error # NoError))

\* a two-chunk run has returned its artifact, the second chunk having been
\* accepted at its last permitted evaluation
C39_Witness ==
    /\ pc = "returned"
    /\ result # None
    /\ Len(chunks) = 2
    /\ oracle_calls = max_retries + 1

====
